---- MODULE Spec2Model ----
(***************************************************************************)
(* Model of web/web_config.py: the key/value configuration parser and      *)
(* writer, the three-slot configuration backup rotation, the readiness     *)
(* gate in front of the stream service, and the dzyga binary deployer.     *)
(*                                                                         *)
(* Text is a sequence of one-character strings.  A file is a record with   *)
(* an `exists' flag.  Every HTTP handler is one action; it records the     *)
(* request and the response in `resp' and the service-control commands it  *)
(* issued in `cmds'.                                                       *)
(***************************************************************************)
EXTENDS Integers, Sequences, FiniteSets, TLC

VARIABLES
    conf_file,      \* CONFIG_FILE: config/stream.conf
    defaults_file,  \* DEFAULTS_FILE: config/defaults.conf (never written)
    backup,         \* backup[i]: CONFIG_FILE.with_suffix('.conf.backup.<i>')
    hist,           \* history: live contents of the current streak of raw saves
    units,          \* systemd units of the stream that are active
    binary,         \* DZYGA_BINARY
    dz_backups,     \* files of DZYGA_BACKUP_DIR, by name
    dz_service,     \* activation state of DZYGA_SERVICE
    clock,          \* wall clock, in seconds
    faults,         \* external commands that ended other than with status 0
    threads,        \* requests the threaded server is serving step by step
    cmds,           \* service-control commands issued by the last handler
    resp            \* the last request and its response

vars == <<conf_file, defaults_file, backup, hist, units,
          binary, dz_backups, dz_service, clock, faults, threads, cmds, resp>>

\* A handler that runs as one step leaves `threads' as it is: the variable
\* belongs to both groups.
config_vars == <<conf_file, defaults_file, backup, hist, threads>>
dzyga_vars == <<binary, dz_backups, dz_service, clock, faults, threads>>

\* The worker threads of app.run(): Flask serves each request in its own.
Threads == {1, 2}

\* A thread that serves no request.
Idle == [pc |-> "idle"]
NoThreads == [p \in Threads |-> Idle]

----------------------------------------------------------------------------
(* Bounds of the model.                                                    *)

\* Length of the window of `hist': the live contents remembered.
HistLen == 5

\* Last second of the wall clock.
MaxClock == 1

\* Most raw saves the two threads begin.
MaxRaceSaves == 4

\* Most files the dzyga backup directory holds: an upload that would add one
\* more waits for a delete.
MaxBackups == 2

\* Most external commands of the dzyga handlers that end other than with exit
\* status 0, over a whole run.
MaxFaults == 1

----------------------------------------------------------------------------
(* Python string primitives.                                               *)

NL == "\n"
QUOTE == "\""

\* Characters str.strip() removes.
IsSpace(c) == c \in {" ", "\t", "\n"}

RECURSIVE lstrip(_)
lstrip(s) ==
    IF s = <<>> THEN <<>>
    ELSE IF IsSpace(Head(s)) THEN lstrip(Tail(s)) ELSE s

RECURSIVE rstrip(_)
rstrip(s) ==
    IF s = <<>> THEN <<>>
    ELSE IF IsSpace(s[Len(s)]) THEN rstrip(SubSeq(s, 1, Len(s) - 1)) ELSE s

\* str.strip()
strip(s) == rstrip(lstrip(s))

\* c in s
Contains(s, c) == \E i \in 1..Len(s) : s[i] = c

\* s.find(c) + 1: the position of the first c in s, 0 when there is none.
Find(s, c) ==
    IF Contains(s, c)
    THEN CHOOSE i \in 1..Len(s) : s[i] = c /\ \A j \in 1..(i - 1) : s[j] # c
    ELSE 0

\* s.startswith(c), s.endswith(c) for a one-character c
startswith(s, c) == Len(s) > 0 /\ s[1] = c
endswith(s, c) == Len(s) > 0 /\ s[Len(s)] = c

\* s.split(c): the pieces of s between the occurrences of c
RECURSIVE split(_, _)
split(s, c) ==
    LET i == Find(s, c) IN
    IF i = 0 THEN <<s>>
    ELSE <<SubSeq(s, 1, i - 1)>> \o split(SubSeq(s, i + 1, Len(s)), c)

\* s.split('=', 1) of a line that contains '=': <<key, value>>
split_eq(s) ==
    LET i == Find(s, "=") IN <<SubSeq(s, 1, i - 1), SubSeq(s, i + 1, Len(s))>>

\* f.readlines(): the lines of s, each with its line end
RECURSIVE readlines(_)
readlines(s) ==
    LET i == Find(s, NL) IN
    IF s = <<>> THEN <<>>
    ELSE IF i = 0 THEN <<s>>
    ELSE <<SubSeq(s, 1, i)>> \o readlines(SubSeq(s, i + 1, Len(s)))

\* '\n'.join(ls)
RECURSIVE join_nl(_)
join_nl(ls) ==
    IF ls = <<>> THEN <<>>
    ELSE IF Len(ls) = 1 THEN ls[1]
    ELSE ls[1] \o <<NL>> \o join_nl(Tail(ls))

\* ''.join(ls), what f.writelines(ls) writes
RECURSIVE concat(_)
concat(ls) == IF ls = <<>> THEN <<>> ELSE Head(ls) \o concat(Tail(ls))

\* value[1:-1]
slice_1_m1(s) == IF Len(s) <= 2 THEN <<>> ELSE SubSeq(s, 2, Len(s) - 1)

\* "Remove quotes if present"
unquote(value) ==
    IF startswith(value, QUOTE) /\ endswith(value, QUOTE)
    THEN slice_1_m1(value) ELSE value

----------------------------------------------------------------------------
(* Python dicts: a function from the keys present to their values.         *)

EmptyDict == [k \in {} |-> <<>>]

dict_set(d, k, v) == [x \in (DOMAIN d) \cup {k} |-> IF x = k THEN v ELSE d[x]]

\* d.get(k, dflt)
dict_get(d, k, dflt) == IF k \in DOMAIN d THEN d[k] ELSE dflt

----------------------------------------------------------------------------
(* Files.                                                                  *)

Absent == [exists |-> FALSE, content |-> <<>>]
File(text) == [exists |-> TRUE, content |-> text]

K_RTMP_URL == <<"R", "T", "M", "P", "_", "U", "R", "L">>
K_OVERLAY_TEXT == <<"O", "V", "E", "R", "L", "A", "Y", "_", "T", "E", "X", "T">>
K_USE_UDP_PROXY == <<"U", "S", "E", "_", "U", "D", "P", "_", "P", "R", "O", "X", "Y">>
K_AUTO_RESTART_ENABLED == <<"A", "U", "T", "O", "_", "R", "E", "S", "T", "A", "R", "T", "_", "E", "N", "A", "B", "L", "E", "D">>
V_true == <<"t", "r", "u", "e">>
V_false == <<"f", "a", "l", "s", "e">>

\* A file with metadata: the dzyga binary and its backups.  `mode' is the
\* permission part of st_mode (S_IMODE), `content' a sequence of bytes.
DzAbsent == [exists |-> FALSE, content |-> <<>>, mtime |-> 0,
             uid |-> 0, gid |-> 0, mode |-> 0]
DzFile(content, mtime, uid, gid, mode) ==
    [exists |-> TRUE, content |-> content, mtime |-> mtime,
     uid |-> uid, gid |-> gid, mode |-> mode]

\* A directory: a function from the names present to the files.
EmptyDir == [n \in {} |-> DzAbsent]

----------------------------------------------------------------------------
(* Readiness gate, parser and writer.                                      *)

\* is_config_ready(config)
is_config_ready(config) ==
    LET rtmp == strip(dict_get(config, K_RTMP_URL, <<>>)) IN
    IF rtmp = <<>> THEN FALSE ELSE TRUE

\* The loop of parse_defaults over the lines of the defaults file.
RECURSIVE parse_defaults_loop(_, _)
parse_defaults_loop(lines, defaults) ==
    IF lines = <<>> THEN defaults
    ELSE
        LET line_stripped == strip(Head(lines)) IN
        IF line_stripped # <<>> /\ ~startswith(line_stripped, "#")
           /\ Contains(line_stripped, "=")
        THEN
            LET kv == split_eq(line_stripped)
                key == strip(kv[1])
                value == unquote(strip(kv[2]))
            IN  parse_defaults_loop(Tail(lines), dict_set(defaults, key, value))
        ELSE parse_defaults_loop(Tail(lines), defaults)

\* parse_defaults() on the defaults file dfile
parse_defaults(dfile) ==
    IF ~dfile.exists THEN EmptyDict
    ELSE parse_defaults_loop(readlines(dfile.content), EmptyDict)

\* The loop of parse_config over content.split('\n'); st is the triple
\* [config, comments, current_comment].
RECURSIVE parse_config_loop(_, _)
parse_config_loop(lines, st) ==
    IF lines = <<>> THEN st
    ELSE
        LET line == strip(Head(lines)) IN
        IF startswith(line, "#")
        THEN parse_config_loop(Tail(lines),
                [st EXCEPT !.current_comment = Append(@, strip(Tail(line)))])
        ELSE IF line # <<>> /\ Contains(line, "=")
        THEN
            LET kv == split_eq(line)
                key == strip(kv[1])
                value == unquote(strip(kv[2]))
            IN  parse_config_loop(Tail(lines),
                    [config |-> dict_set(st.config, key, value),
                     comments |->
                        IF st.current_comment # <<>>
                        THEN dict_set(st.comments, key, join_nl(st.current_comment))
                        ELSE st.comments,
                     current_comment |->
                        IF st.current_comment # <<>> THEN <<>>
                        ELSE st.current_comment])
        ELSE IF line # <<>>
        THEN parse_config_loop(Tail(lines),
                [st EXCEPT !.current_comment = Append(@, line)])
        ELSE parse_config_loop(Tail(lines), st)

\* "Apply default values for missing configuration parameters"
merge_defaults(config, defaults) ==
    [k \in (DOMAIN config) \cup (DOMAIN defaults) |->
        IF k \in DOMAIN config THEN config[k] ELSE defaults[k]]

\* parse_config() on the files cfile and dfile: [config, comments]
parse_config(cfile, dfile) ==
    IF ~cfile.exists THEN [config |-> EmptyDict, comments |-> EmptyDict]
    ELSE
        LET st == parse_config_loop(split(cfile.content, NL),
                    [config |-> EmptyDict, comments |-> EmptyDict,
                     current_comment |-> <<>>])
        IN  [config |-> merge_defaults(st.config, parse_defaults(dfile)),
             comments |-> st.comments]

\* A proposed update set (the JSON object of the request) is a sequence of
\* <<key, value>> pairs with distinct keys, in the object's iteration order.
has_key(config_data, key) == \E i \in 1..Len(config_data) : config_data[i][1] = key

value_of(config_data, key) ==
    config_data[CHOOSE i \in 1..Len(config_data) : config_data[i][1] = key][2]

\* The dict a JSON object denotes.
as_dict(config_data) ==
    [k \in {config_data[i][1] : i \in 1..Len(config_data)} |-> value_of(config_data, k)]

\* if ' ' in value or not value: value = f'"{value}"'
quote_value(value) ==
    IF Contains(value, " ") \/ value = <<>>
    THEN <<QUOTE>> \o value \o <<QUOTE>> ELSE value

\* f'{key}={value}\n'
key_value_line(key, value) == key \o <<"=">> \o quote_value(value) \o <<NL>>

\* The first loop of save_config: the rewritten lines and the keys updated.
RECURSIVE rewrite_lines(_, _, _)
rewrite_lines(lines, config_data, acc) ==
    IF lines = <<>> THEN acc
    ELSE
        LET line == Head(lines)
            line_stripped == strip(line)
            key == strip(split_eq(line_stripped)[1])
        IN
        IF Contains(line_stripped, "=") /\ ~startswith(line_stripped, "#")
        THEN
            IF has_key(config_data, key)
            THEN rewrite_lines(Tail(lines), config_data,
                    [new_lines |-> Append(acc.new_lines,
                                    key_value_line(key, value_of(config_data, key))),
                     updated_keys |-> acc.updated_keys \cup {key}])
            ELSE rewrite_lines(Tail(lines), config_data,
                    [acc EXCEPT !.new_lines = Append(@, line)])
        ELSE rewrite_lines(Tail(lines), config_data,
                [acc EXCEPT !.new_lines = Append(@, line)])

\* The second loop of save_config: "Add missing parameters from config_data".
RECURSIVE append_missing(_, _, _)
append_missing(config_data, updated_keys, new_lines) ==
    IF config_data = <<>> THEN new_lines
    ELSE
        LET key == Head(config_data)[1]
            value == Head(config_data)[2]
        IN
        IF key \notin updated_keys
        THEN append_missing(Tail(config_data), updated_keys,
                Append(new_lines, key_value_line(key, value)))
        ELSE append_missing(Tail(config_data), updated_keys, new_lines)

\* The text save_config writes for the file text `content'.
rewrite(content, config_data) ==
    LET acc == rewrite_lines(readlines(content), config_data,
                    [new_lines |-> <<>>, updated_keys |-> {}])
    IN  concat(append_missing(config_data, acc.updated_keys, acc.new_lines))

\* save_config(config_data) on the files cfile and dfile.  write_ok is whether
\* opening CONFIG_FILE for writing succeeds.  The result tells whether an
\* exception left the function (no defaults file, or the bootstrap copy could
\* not be written), the success flag returned otherwise, and the
\* configuration file afterwards.
save_config(cfile, dfile, config_data, write_ok) ==
    IF ~cfile.exists /\ (~dfile.exists \/ ~write_ok)
    THEN [raised |-> TRUE, success |-> FALSE, file |-> cfile]
    ELSE
        LET start == IF cfile.exists THEN cfile ELSE File(dfile.content) IN
        IF write_ok
        THEN [raised |-> FALSE, success |-> TRUE,
              file |-> File(rewrite(start.content, config_data))]
        ELSE [raised |-> FALSE, success |-> FALSE, file |-> start]

----------------------------------------------------------------------------
(* Requests, responses and the inputs the model draws.                     *)

\* HTTP status codes of the handlers and the error kinds they stand for.
OK == 200
InvalidInput == 400
NotFound == 404
ServerError == 500

Response(op, req, status, error, body) ==
    [op |-> op, req |-> req, status |-> status, error |-> error, body |-> body]

NoBody == <<>>

\* The last n elements of s.
LastN(s, n) == IF Len(s) <= n THEN s ELSE SubSeq(s, Len(s) - n + 1, Len(s))

R_empty == <<>>
R_blank == <<" ", NL>>
R_a == K_RTMP_URL \o <<"=", "a", NL>>
R_b == K_RTMP_URL \o <<"=", "b">>
R_comment == <<"#", "c", NL, "X", "=", "1", NL>>

\* Contents posted to /api/config/raw.
RawContents == {R_empty, R_blank, R_a, R_b, R_comment}

DefaultsText == K_RTMP_URL \o <<"=", NL>>

\* Backup numbers requested: the route takes any non-negative integer.
BackupNums == 0..4

U_clear == << <<K_RTMP_URL, <<>>>> >>
U_set == << <<K_RTMP_URL, <<"c", " ", "d">>>> >>
U_autorestart == << <<K_AUTO_RESTART_ENABLED, V_true>> >>
U_noproxy == << <<K_USE_UDP_PROXY, V_false>> >>

\* Update sets posted to /api/config.
UpdateSets == {U_clear}
StreamUpdateSets == {U_clear, U_set, U_autorestart, U_noproxy}

I_ready == << <<K_RTMP_URL, <<" ", "a">>>>, <<K_OVERLAY_TEXT, <<"x">>>> >>
I_blank == << <<K_RTMP_URL, <<" ">>>> >>
I_missing == << <<K_OVERLAY_TEXT, <<"x">>>> >>

\* JSON objects posted to /api/installer.
InstallerInputs == {I_ready, I_blank, I_missing}

----------------------------------------------------------------------------
(* Backup rotation store.                                                  *)

\* if f.exists(): f.unlink()
unlink_if_exists(b, i) == IF b[i].exists THEN [b EXCEPT ![i] = Absent] ELSE b

\* if f.exists(): f.rename(g)
rename_if_exists(b, i, j) ==
    IF b[i].exists THEN [b EXCEPT ![j] = b[i], ![i] = Absent] ELSE b

\* A snapshot step that writes nothing.
snapshot_current_skipped(b, cfile) == b

\* "Create backup of current config"
snapshot_current(b, cfile) ==
    IF cfile.exists THEN [b EXCEPT ![1] = File(cfile.content)] ELSE b

\* Rotation that moves slot 1 straight to slot 3 and drops slot 2.
rotate_skipping_slot(b, cfile) ==
    snapshot_current(
        rename_if_exists(unlink_if_exists(unlink_if_exists(b, 3), 2), 1, 3),
        cfile)

\* Rotation with the two renames in the wrong order: slot 1 is moved onto
\* slot 2 before slot 2 has been moved away.
rotate_wrong_order(b, cfile) ==
    snapshot_current(
        rename_if_exists(rename_if_exists(unlink_if_exists(b, 3), 1, 2), 2, 3),
        cfile)

\* "Rotate backups: backup.2 -> backup.3, backup.1 -> backup.2, current -> backup.1"
rotate(b, cfile) ==
    snapshot_current(
        rename_if_exists(rename_if_exists(unlink_if_exists(b, 3), 2, 3), 1, 2),
        cfile)

\* A raw save that rotates the backups before it validates the content.
save_raw_config_late_check(content) ==
    /\ backup' = rotate(backup, conf_file)
    /\ IF strip(content) = <<>>
       THEN /\ resp' = Response("save_raw_config", content, InvalidInput,
                                "Configuration content cannot be empty", NoBody)
            /\ UNCHANGED <<conf_file, hist>>
       ELSE /\ conf_file' = File(content)
            /\ hist' = LastN(Append(hist, File(content)), HistLen)
            /\ resp' = Response("save_raw_config", content, OK, "", NoBody)
    /\ cmds' = <<>>
    /\ UNCHANGED <<defaults_file, units, dzyga_vars>>

\* POST /api/config/raw
save_raw_config(content) ==
    /\ IF strip(content) = <<>>
       THEN /\ resp' = Response("save_raw_config", content, InvalidInput,
                                "Configuration content cannot be empty", NoBody)
            /\ UNCHANGED <<conf_file, backup, hist>>
       ELSE /\ backup' = rotate(backup, conf_file)
            /\ conf_file' = File(content)
            /\ hist' = LastN(Append(hist, File(content)), HistLen)
            /\ resp' = Response("save_raw_config", content, OK, "", NoBody)
    /\ cmds' = <<>>
    /\ UNCHANGED <<defaults_file, units, dzyga_vars>>

\* GET /api/config/backups
get_backups ==
    /\ resp' = Response("get_backups", <<>>, OK, "",
                        [i \in {j \in 1..3 : backup[j].exists} |-> i])
    /\ cmds' = <<>>
    /\ UNCHANGED <<config_vars, units, dzyga_vars>>

\* A fetch without the existence check: opening the missing file raises.
get_backup_content_no_exists_check(backup_num) ==
    /\ resp' =
        IF backup_num < 1 \/ backup_num > 3
        THEN Response("get_backup_content", backup_num, InvalidInput,
                      "Invalid backup number", NoBody)
        ELSE IF ~backup[backup_num].exists
        THEN Response("get_backup_content", backup_num, ServerError,
                      "exception", NoBody)
        ELSE Response("get_backup_content", backup_num, OK, "",
                      backup[backup_num].content)
    /\ cmds' = <<>>
    /\ UNCHANGED <<config_vars, units, dzyga_vars>>

\* GET /api/config/backup/<int:backup_num>
get_backup_content(backup_num) ==
    /\ resp' =
        IF backup_num < 1 \/ backup_num > 3
        THEN Response("get_backup_content", backup_num, InvalidInput,
                      "Invalid backup number", NoBody)
        ELSE IF ~backup[backup_num].exists
        THEN Response("get_backup_content", backup_num, NotFound,
                      "Backup not found", NoBody)
        ELSE Response("get_backup_content", backup_num, OK, "",
                      backup[backup_num].content)
    /\ cmds' = <<>>
    /\ UNCHANGED <<config_vars, units, dzyga_vars>>

\* A restore that first pushes the live file into the rotation.
restore_with_snapshot(backup_num) ==
    /\ IF backup_num < 1 \/ backup_num > 3
       THEN /\ resp' = Response("restore_from_backup", backup_num, InvalidInput,
                                "Invalid backup number", NoBody)
            /\ UNCHANGED <<conf_file, hist, backup>>
       ELSE IF ~backup[backup_num].exists
       THEN /\ resp' = Response("restore_from_backup", backup_num, NotFound,
                                "Backup not found", NoBody)
            /\ UNCHANGED <<conf_file, hist, backup>>
       ELSE /\ conf_file' = File(backup[backup_num].content)
            /\ backup' = rotate(backup, conf_file)
            /\ hist' = <<conf_file'>>
            /\ resp' = Response("restore_from_backup", backup_num, OK, "", NoBody)
    /\ cmds' = <<>>
    /\ UNCHANGED <<defaults_file, units, dzyga_vars>>

\* POST /api/config/restore/<int:backup_num>
restore_from_backup(backup_num) ==
    /\ IF backup_num < 1 \/ backup_num > 3
       THEN /\ resp' = Response("restore_from_backup", backup_num, InvalidInput,
                                "Invalid backup number", NoBody)
            /\ UNCHANGED <<conf_file, hist>>
       ELSE IF ~backup[backup_num].exists
       THEN /\ resp' = Response("restore_from_backup", backup_num, NotFound,
                                "Backup not found", NoBody)
            /\ UNCHANGED <<conf_file, hist>>
       ELSE /\ conf_file' = File(backup[backup_num].content)
            /\ hist' = <<conf_file'>>
            /\ resp' = Response("restore_from_backup", backup_num, OK, "", NoBody)
    /\ cmds' = <<>>
    /\ UNCHANGED <<defaults_file, backup, units, dzyga_vars>>

----------------------------------------------------------------------------
(* Key/value updates.                                                      *)

STREAM == "forpost-stream"
UDP_PROXY == "forpost-udp-proxy"
AUTORESTART_TIMER == "forpost-stream-autorestart.timer"

\* POST /api/config.  log_marker is whether the tail of config_handler.log
\* holds 'Stream-critical parameter changed'.
update_config(config_data, write_ok, log_marker) ==
    LET r == save_config(conf_file, defaults_file, config_data, write_ok) IN
    /\ conf_file' = r.file
    /\ hist' = IF r.file = conf_file THEN hist ELSE <<r.file>>
    /\ resp' =
        IF r.raised
        THEN Response("update_config", config_data, ServerError, "exception", NoBody)
        ELSE IF r.success
        THEN Response("update_config", config_data, OK, "",
                      [stream_restart_required |-> (STREAM \in units) /\ log_marker])
        ELSE Response("update_config", config_data, ServerError, "write failed", NoBody)
    /\ cmds' = <<>>
    /\ UNCHANGED <<defaults_file, backup, units, dzyga_vars>>

\* POST /api/installer
installer_save(data, write_ok) ==
    LET rtmp_url == strip(dict_get(as_dict(data), K_RTMP_URL, <<>>))
        overlay_text == dict_get(as_dict(data), K_OVERLAY_TEXT, <<>>)
        r == save_config(conf_file, defaults_file,
                         << <<K_RTMP_URL, rtmp_url>>, <<K_OVERLAY_TEXT, overlay_text>> >>,
                         write_ok)
    IN
    /\ IF rtmp_url = <<>>
       THEN /\ resp' = Response("installer_save", data, InvalidInput,
                                "RTMP URL is required", NoBody)
            /\ UNCHANGED <<conf_file, hist>>
       ELSE /\ conf_file' = r.file
            /\ hist' = IF r.file = conf_file THEN hist ELSE <<r.file>>
            /\ resp' =
                IF r.raised
                THEN Response("installer_save", data, ServerError, "exception", NoBody)
                ELSE IF r.success
                THEN Response("installer_save", data, OK, "", NoBody)
                ELSE Response("installer_save", data, ServerError, "write failed", NoBody)
    /\ cmds' = <<>>
    /\ UNCHANGED <<defaults_file, backup, units, dzyga_vars>>

\* GET /api/config: the parsed configuration and the comments of its keys.
get_config ==
    /\ resp' = Response("get_config", <<>>, OK, "",
                        parse_config(conf_file, defaults_file))
    /\ cmds' = <<>>
    /\ UNCHANGED <<config_vars, units, dzyga_vars>>

----------------------------------------------------------------------------
(* Stream service control.                                                 *)

\* os.system('sudo systemctl <verb> <unit>') with exit status rc: the units
\* active afterwards.
systemctl(verb, unit, rc, active) ==
    IF rc # 0 THEN active
    ELSE IF verb = "stop" THEN active \ {unit}
    ELSE active \cup {unit}

\* The units active after the commands cs = <<verb, unit, rc>>, in order.
RECURSIVE run_commands(_, _)
run_commands(cs, active) ==
    IF cs = <<>> THEN active
    ELSE run_commands(Tail(cs), systemctl(cs[1][1], cs[1][2], cs[1][3], active))

\* The commands issued, without their exit status.
issued(cs) == [i \in 1..Len(cs) |-> <<cs[i][1], cs[i][2]>>]

\* Exit statuses drawn for a command.
ExitCodes == {0, 1}

\* A start that does not consult the readiness gate.
start_service_ungated(rc_proxy, rc_stream, rc_timer) ==
    LET config == parse_config(conf_file, defaults_file).config
        cs == (IF dict_get(config, K_USE_UDP_PROXY, V_true) = V_true
               THEN << <<"start", UDP_PROXY, rc_proxy>> >> ELSE <<>>)
              \o << <<"start", STREAM, rc_stream>> >>
              \o (IF rc_stream = 0
                     /\ dict_get(config, K_AUTO_RESTART_ENABLED, V_false) = V_true
                  THEN << <<"start", AUTORESTART_TIMER, rc_timer>> >> ELSE <<>>)
    IN
    /\ cmds' = issued(cs)
    /\ units' = run_commands(cs, units)
    /\ resp' = IF rc_stream = 0
               THEN Response("start_service", <<>>, OK, "", NoBody)
               ELSE Response("start_service", <<>>, ServerError,
                             "Failed to start stream", NoBody)
    /\ UNCHANGED <<config_vars, dzyga_vars>>

\* POST /api/stream/start.  rc_proxy, rc_stream and rc_timer are the exit
\* statuses of the three commands, for those that run.
start_service(rc_proxy, rc_stream, rc_timer) ==
    LET config == parse_config(conf_file, defaults_file).config
        cs == (IF dict_get(config, K_USE_UDP_PROXY, V_true) = V_true
               THEN << <<"start", UDP_PROXY, rc_proxy>> >> ELSE <<>>)
              \o << <<"start", STREAM, rc_stream>> >>
              \o (IF rc_stream = 0
                     /\ dict_get(config, K_AUTO_RESTART_ENABLED, V_false) = V_true
                  THEN << <<"start", AUTORESTART_TIMER, rc_timer>> >> ELSE <<>>)
    IN
    /\ IF ~is_config_ready(config)
       THEN /\ resp' = Response("start_service", <<>>, InvalidInput,
                                "RTMP URL is not filled in", NoBody)
            /\ cmds' = <<>>
            /\ UNCHANGED units
       ELSE /\ cmds' = issued(cs)
            /\ units' = run_commands(cs, units)
            /\ resp' = IF rc_stream = 0
                       THEN Response("start_service", <<>>, OK, "", NoBody)
                       ELSE Response("start_service", <<>>, ServerError,
                                     "Failed to start stream", NoBody)
    /\ UNCHANGED <<config_vars, dzyga_vars>>

\* POST /api/stream/stop
stop_service(rc_timer, rc_stream, rc_proxy) ==
    LET cs == << <<"stop", AUTORESTART_TIMER, rc_timer>>,
                 <<"stop", STREAM, rc_stream>>,
                 <<"stop", UDP_PROXY, rc_proxy>> >>
    IN
    /\ cmds' = issued(cs)
    /\ units' = run_commands(cs, units)
    /\ resp' = IF rc_stream = 0
               THEN Response("stop_service", <<>>, OK, "", NoBody)
               ELSE Response("stop_service", <<>>, ServerError,
                             "Failed to stop stream", NoBody)
    /\ UNCHANGED <<config_vars, dzyga_vars>>

\* POST /api/stream/restart
restart_service(rc_proxy, rc_stream) ==
    LET config == parse_config(conf_file, defaults_file).config
        cs == (IF dict_get(config, K_USE_UDP_PROXY, V_true) = V_true
               THEN << <<"restart", UDP_PROXY, rc_proxy>> >> ELSE <<>>)
              \o << <<"restart", STREAM, rc_stream>> >>
    IN
    /\ IF ~is_config_ready(config)
       THEN /\ resp' = Response("restart_service", <<>>, InvalidInput,
                                "RTMP URL is not filled in", NoBody)
            /\ cmds' = <<>>
            /\ UNCHANGED units
       ELSE /\ cmds' = issued(cs)
            /\ units' = run_commands(cs, units)
            /\ resp' = IF rc_stream = 0
                       THEN Response("restart_service", <<>>, OK, "", NoBody)
                       ELSE Response("restart_service", <<>>, ServerError,
                                     "Failed to restart stream", NoBody)
    /\ UNCHANGED <<config_vars, dzyga_vars>>

----------------------------------------------------------------------------
(* Dzyga binary management.                                                *)

\* pw_uid and pw_gid of the user rpidrone, and the uid of root.
RPIDRONE_ID == 1000
ROOT_ID == 0

\* 0o751, the default mode; 0o600, the mode of a mkstemp file.
DEFAULT_MODE == 489
MKSTEMP_MODE == 384

\* S_IFREG, the file-type bits of st_mode.
S_IFREG == 32768

HexDigits == <<"0", "1", "2", "3", "4", "5", "6", "7", "8", "9",
               "a", "b", "c", "d", "e", "f">>

\* The loop of _file_md5: the digest state after the bytes of `content'.
\* The digest is a stand-in for MD5, eight bits wide.
RECURSIVE md5_update(_, _)
md5_update(h, content) ==
    IF content = <<>> THEN h
    ELSE md5_update((h * 31 + Head(content) + 1) % 256, Tail(content))

\* _file_md5(filepath): the hex digest of the file's content.
file_md5(content) ==
    LET h == md5_update(7, content) IN
    <<HexDigits[(h \div 16) + 1], HexDigits[(h % 16) + 1]>>

\* strftime('%Y%m%d_%H%M%S') of a time stamp, here the seconds in two digits.
strftime(t) == <<HexDigits[((t \div 10) % 10) + 1], HexDigits[(t % 10) + 1]>>

\* f'dzyga.backup.{old_mtime}.md5_{old_md5}'
backup_name_of(f) ==
    <<"d", "z", "y", "g", "a", ".", "b", "a", "c", "k", "u", "p", ".">>
        \o strftime(f.mtime) \o <<".", "m", "d", "5", "_">> \o file_md5(f.content)

\* A check of the name that looks for '/' only.
is_traversal_slash_only(name) == Contains(name, "/")

\* '/' in name or '..' in name
is_traversal(name) ==
    \/ Contains(name, "/")
    \/ \E i \in 1..(Len(name) - 1) : name[i] = "." /\ name[i + 1] = "."

\* The deployer's world: the binary, the backup directory, the service, the
\* external commands issued so far by the running handler, and the commands
\* that failed so far.
World(b, dir, service, issued_cmds, failed) ==
    [binary |-> b, backups |-> dir, service |-> service, cmds |-> issued_cmds,
     faults |-> failed]

\* How an external command ends: exit status 0, a non-zero exit status, or
\* subprocess.TimeoutExpired.
Outcomes == {"ok", "fail", "timeout"}

\* How `sudo cp' ends: "truncated" is a non-zero exit status after the
\* destination was opened and cut.
CpOutcomes == {"ok", "fail", "truncated", "timeout"}

\* An external command the handler ran, and how it ended.
Ran(cmd, o) == [cmd |-> cmd, outcome |-> o]

\* The world after a command that ended with outcome o was recorded.
ran(w, cmd, o) ==
    [w EXCEPT !.cmds = Append(@, Ran(cmd, o)),
              !.faults = IF o = "ok" THEN @ ELSE @ + 1]

\* The outcomes the next command of the handler can have.
Allowed(w, outcomes) == IF w.faults < MaxFaults THEN outcomes ELSE {"ok"}

\* A service command whose stop leaves the service as it is.
dzyga_service_cmd_stop_ignored(w, action, o) ==
    [ran(w, action, o) EXCEPT
              !.service = IF o = "ok" /\ action = "start" THEN "active" ELSE @]

\* _dzyga_service_cmd(action) ending with outcome o.
dzyga_service_cmd(w, action, o) ==
    [ran(w, action, o) EXCEPT
              !.service = IF o # "ok" THEN @
                          ELSE IF action = "stop" THEN "inactive"
                          ELSE IF action = "start" THEN "active"
                          ELSE @]

\* A backup step that copies nothing.
copy2_backup_skipped(w, name) == w

\* A backup step that rotates: it keeps the new entry only.
copy2_backup_rotating(w, name) ==
    [w EXCEPT !.backups =
        [n \in {name} |->
            DzFile(w.binary.content, w.binary.mtime, ROOT_ID, ROOT_ID,
                   w.binary.mode)]]

\* shutil.copy2(DZYGA_BINARY, backup_path): content, mode and times kept.
copy2_backup(w, name) ==
    [w EXCEPT !.backups =
        [n \in (DOMAIN @) \cup {name} |->
            IF n = name
            THEN DzFile(w.binary.content, w.binary.mtime, ROOT_ID, ROOT_ID,
                        w.binary.mode)
            ELSE @[n]]]

\* sudo cp <src> DZYGA_BINARY at time now, ending with outcome o: an
\* existing destination keeps owner and mode, a new one is root's.
sudo_cp(w, src_content, src_mode, now, o) ==
    LET written == IF o = "ok" THEN src_content ELSE <<>> IN
    IF o \in {"fail", "timeout"}
    THEN ran(w, "cp", o)
    ELSE [ran(w, "cp", o) EXCEPT
                   !.binary =
                        IF @.exists
                        THEN [@ EXCEPT !.content = written, !.mtime = now]
                        ELSE DzFile(written, now, ROOT_ID, ROOT_ID,
                                    src_mode % 512)]

\* sudo chown uid:gid DZYGA_BINARY
sudo_chown(w, uid, gid, o) ==
    [ran(w, "chown", o) EXCEPT
              !.binary = IF o = "ok" /\ @.exists
                         THEN [@ EXCEPT !.uid = uid, !.gid = gid] ELSE @]

\* sudo chmod oct(orig_mode)[-3:] DZYGA_BINARY: the last three octal digits.
sudo_chmod(w, orig_mode, o) ==
    [ran(w, "chmod", o) EXCEPT
              !.binary = IF o = "ok" /\ @.exists
                         THEN [@ EXCEPT !.mode = orig_mode % 512] ELSE @]

\* "Remember original permissions/ownership"
orig_stat(b) ==
    IF b.exists
    THEN [uid |-> b.uid, gid |-> b.gid, mode |-> S_IFREG + b.mode]
    ELSE [uid |-> RPIDRONE_ID, gid |-> RPIDRONE_ID, mode |-> DEFAULT_MODE]

Ended(w, result) == [w |-> w, result |-> result]

\* "daemon-reload and start": the end of the replace sequence.
reload_and_start(w) ==
    UNION {
        IF o_reload = "timeout"
        THEN {Ended(dzyga_service_cmd(w, "daemon-reload", o_reload), "exception")}
        ELSE {LET w1 == dzyga_service_cmd(
                            dzyga_service_cmd(w, "daemon-reload", o_reload),
                            "start", o_start)
              IN  Ended(w1, IF o_start = "timeout" THEN "exception" ELSE "success")
              : o_start \in Allowed(dzyga_service_cmd(w, "daemon-reload", o_reload),
                                    Outcomes)}
        : o_reload \in Allowed(w, Outcomes)}

\* "Restore ownership and permissions", then reload and start.
fix_ownership_and_start(w, orig) ==
    UNION {
        IF o_chown = "timeout"
        THEN {Ended(sudo_chown(w, orig.uid, orig.gid, o_chown), "exception")}
        ELSE UNION {
            IF o_chmod = "timeout"
            THEN {Ended(sudo_chmod(sudo_chown(w, orig.uid, orig.gid, o_chown),
                                   orig.mode, o_chmod), "exception")}
            ELSE reload_and_start(
                    sudo_chmod(sudo_chown(w, orig.uid, orig.gid, o_chown),
                               orig.mode, o_chmod))
            : o_chmod \in Allowed(sudo_chown(w, orig.uid, orig.gid, o_chown),
                                  Outcomes)}
        : o_chown \in Allowed(w, Outcomes)}

\* A replace step that does not look at the exit status of the copy.
copy_then_finish_ignore_rc(w, src_content, src_mode, orig, now) ==
    UNION {
        LET w1 == sudo_cp(w, src_content, src_mode, now, o_cp) IN
        IF o_cp = "timeout" THEN {Ended(w1, "exception")}
        ELSE fix_ownership_and_start(w1, orig)
        : o_cp \in Allowed(w, CpOutcomes)}

\* "Replace binary": the copy, and on a non-zero exit status the start that
\* follows it.
copy_then_finish(w, src_content, src_mode, orig, now) ==
    UNION {
        LET w1 == sudo_cp(w, src_content, src_mode, now, o_cp) IN
        IF o_cp = "timeout" THEN {Ended(w1, "exception")}
        ELSE IF o_cp # "ok"
        THEN {Ended(dzyga_service_cmd(w1, "start", o_start),
                    IF o_start = "timeout" THEN "exception" ELSE "replace failed")
              : o_start \in Allowed(w1, Outcomes)}
        ELSE fix_ownership_and_start(w1, orig)
        : o_cp \in Allowed(w, CpOutcomes)}

\* A replace sequence that first snapshots the live binary.
replace_sequence_snapshotting(w, src_content, src_mode, orig, now) ==
    LET w0 == IF w.binary.exists
              THEN copy2_backup(w, backup_name_of(w.binary)) ELSE w
    IN  UNION {
            LET w1 == dzyga_service_cmd(w0, "stop", o_stop) IN
            IF o_stop = "timeout" THEN {Ended(w1, "exception")}
            ELSE copy_then_finish(w1, src_content, src_mode, orig, now)
            : o_stop \in Allowed(w0, Outcomes)}

\* The sequence shared by upload and restore: stop, replace, restore
\* ownership and permissions, daemon-reload, start.  The result is the set of
\* ways it can end: "success", "replace failed", or "exception".
replace_sequence(w, src_content, src_mode, orig, now) ==
    UNION {
        LET w1 == dzyga_service_cmd(w, "stop", o_stop) IN
        IF o_stop = "timeout" THEN {Ended(w1, "exception")}
        ELSE copy_then_finish(w1, src_content, src_mode, orig, now)
        : o_stop \in Allowed(w, Outcomes)}

\* An exception handler that issues no command.
on_exception_silent(w) == {Ended(w, "exception")}

\* The handlers' `except Exception': "Try to restart service on any error".
on_exception(w) ==
    {Ended(dzyga_service_cmd(w, "start", o), "exception") : o \in Allowed(w, Outcomes)}

\* The ways a handler ends, the exception handler included.
with_exception_handler(endings) ==
    UNION {IF e.result = "exception" THEN on_exception(e.w) ELSE {e} : e \in endings}

\* JSON null
None == <<>>

\* The body of dzyga_upload after the request was validated.  copy_ok is
\* whether shutil.copy2 succeeds.
upload_endings(w, payload, now, copy_ok) ==
    IF w.binary.exists /\ ~copy_ok
    THEN {Ended(w, "exception")}
    ELSE
        LET w1 == IF w.binary.exists
                  THEN copy2_backup(w, backup_name_of(w.binary)) ELSE w
        IN  replace_sequence(w1, payload, MKSTEMP_MODE, orig_stat(w.binary), now)

\* The response of a handler that ended as e.
dzyga_response(op, req, e, body) ==
    IF e.result = "success" THEN Response(op, req, OK, "", body)
    ELSE Response(op, req, ServerError, e.result, NoBody)

\* POST /api/dzyga/upload.  The request tells whether it carries a file, the
\* file's name and its bytes.
dzyga_upload(req, copy_ok) ==
    IF ~req.has_file \/ req.filename = <<>>
    THEN /\ resp' = Response("dzyga_upload", req, InvalidInput,
                             "no file", NoBody)
         /\ cmds' = <<>>
         /\ UNCHANGED <<binary, dz_backups, dz_service, faults>>
         /\ UNCHANGED <<config_vars, units, clock>>
    ELSE \E e \in with_exception_handler(
                    upload_endings(World(binary, dz_backups, dz_service, <<>>, faults),
                                   req.payload, clock, copy_ok)) :
            /\ binary' = e.w.binary
            /\ dz_backups' = e.w.backups
            /\ dz_service' = e.w.service
            /\ faults' = e.w.faults
            /\ cmds' = e.w.cmds
            /\ resp' = dzyga_response("dzyga_upload", req, e,
                            [new_md5 |-> file_md5(req.payload),
                             new_size |-> Len(req.payload),
                             backup |-> IF binary.exists
                                        THEN backup_name_of(binary) ELSE None])
            /\ UNCHANGED <<config_vars, units, clock>>

\* POST /api/dzyga/restore
dzyga_restore(backup_filename) ==
    IF backup_filename = <<>> \/ is_traversal(backup_filename)
    THEN /\ resp' = Response("dzyga_restore", backup_filename, InvalidInput,
                             "bad file name", NoBody)
         /\ cmds' = <<>>
         /\ UNCHANGED <<binary, dz_backups, dz_service, faults>>
         /\ UNCHANGED <<config_vars, units, clock>>
    ELSE IF backup_filename \notin DOMAIN dz_backups
    THEN /\ resp' = Response("dzyga_restore", backup_filename, NotFound,
                             "backup not found", NoBody)
         /\ cmds' = <<>>
         /\ UNCHANGED <<binary, dz_backups, dz_service, faults>>
         /\ UNCHANGED <<config_vars, units, clock>>
    ELSE \E e \in with_exception_handler(
                    replace_sequence(World(binary, dz_backups, dz_service, <<>>, faults),
                                     dz_backups[backup_filename].content,
                                     dz_backups[backup_filename].mode,
                                     orig_stat(binary), clock)) :
            /\ binary' = e.w.binary
            /\ dz_backups' = e.w.backups
            /\ dz_service' = e.w.service
            /\ faults' = e.w.faults
            /\ cmds' = e.w.cmds
            /\ resp' = dzyga_response("dzyga_restore", backup_filename, e,
                            [md5 |-> file_md5(e.w.binary.content)])
            /\ UNCHANGED <<config_vars, units, clock>>

\* POST /api/dzyga/backup/delete
dzyga_delete_backup(backup_filename) ==
    /\ IF backup_filename = <<>> \/ is_traversal(backup_filename)
       THEN /\ resp' = Response("dzyga_delete_backup", backup_filename,
                                InvalidInput, "bad file name", NoBody)
            /\ UNCHANGED dz_backups
       ELSE IF backup_filename \notin DOMAIN dz_backups
       THEN /\ resp' = Response("dzyga_delete_backup", backup_filename,
                                NotFound, "backup not found", NoBody)
            /\ UNCHANGED dz_backups
       ELSE /\ dz_backups' = [n \in (DOMAIN dz_backups) \ {backup_filename}
                                |-> dz_backups[n]]
            /\ resp' = Response("dzyga_delete_backup", backup_filename, OK, "",
                                NoBody)
    /\ cmds' = <<>>
    /\ UNCHANGED <<binary, dz_service, faults, config_vars, units, clock>>

\* What dzyga_info() reports of a binary, a backup directory and a service.
info_of(b, dir, service) ==
    [binary_exists |-> b.exists,
     md5 |-> IF b.exists THEN file_md5(b.content) ELSE None,
     owner |-> b.uid, group |-> b.gid,
     mode |-> (S_IFREG + b.mode) % 512,
     backups |-> DOMAIN dir,
     service_status |-> service]

\* GET /api/dzyga/info
dzyga_info ==
    /\ resp' = Response("dzyga_info", <<>>, OK, "",
                        info_of(binary, dz_backups, dz_service))
    /\ cmds' = <<>>
    /\ UNCHANGED <<dzyga_vars, config_vars, units>>

\* A second passes.
Tick ==
    /\ clock < MaxClock
    /\ clock' = clock + 1
    /\ UNCHANGED <<binary, dz_backups, dz_service, faults, config_vars, units, cmds, resp>>

----------------------------------------------------------------------------
(* Specification of the configuration store.                               *)

Init ==
    /\ conf_file \in {Absent, File(R_a)}
    /\ defaults_file \in {Absent, File(DefaultsText)}
    /\ backup = [i \in 1..3 |-> Absent]
    /\ hist = <<conf_file>>
    /\ units = {}
    /\ binary = DzAbsent
    /\ dz_backups = EmptyDir
    /\ dz_service = "inactive"
    /\ clock = 0
    /\ faults = 0
    /\ threads = NoThreads
    /\ cmds = <<>>
    /\ resp = Response("none", <<>>, OK, "", NoBody)

Next ==
    \/ \E content \in RawContents : save_raw_config(content)
    \/ get_backups
    \/ \E n \in BackupNums : get_backup_content(n)
    \/ \E n \in BackupNums : restore_from_backup(n)
    \/ \E u \in UpdateSets, write_ok \in BOOLEAN : update_config(u, write_ok, FALSE)

Spec == Init /\ [][Next]_vars

----------------------------------------------------------------------------
(* Specification of the stream service behind the readiness gate.          *)

StreamNext ==
    \/ \E u \in StreamUpdateSets, write_ok, log_marker \in BOOLEAN :
            update_config(u, write_ok, log_marker)
    \/ \E d \in InstallerInputs, write_ok \in BOOLEAN : installer_save(d, write_ok)
    \/ \E rc1, rc2, rc3 \in ExitCodes : start_service(rc1, rc2, rc3)
    \/ \E rc1, rc2, rc3 \in ExitCodes : stop_service(rc1, rc2, rc3)
    \/ \E rc1, rc2 \in ExitCodes : restart_service(rc1, rc2)

StreamSpec == Init /\ [][StreamNext]_vars

----------------------------------------------------------------------------
(* Specification of the dzyga binary deployer.                             *)

P_new == <<1>>
B_initial == <<0>>

F_name == <<"d", "z", "y", "g", "a">>

\* Requests posted to /api/dzyga/upload.
UploadRequests ==
    {[has_file |-> FALSE, filename |-> <<>>, payload |-> <<>>],
     [has_file |-> TRUE, filename |-> <<>>, payload |-> P_new]}
    \cup {[has_file |-> TRUE, filename |-> F_name, payload |-> P_new]}

\* File names posted that name no backup.
BadNames == {<<>>, <<"a", "/", "b">>, <<".", ".">>, <<"x">>}

\* The binary is absent, or root's with mode 0o4755 (2541), setuid.
DzygaInit ==
    /\ conf_file = Absent
    /\ defaults_file = Absent
    /\ backup = [i \in 1..3 |-> Absent]
    /\ hist = <<conf_file>>
    /\ units = {}
    /\ binary \in {DzAbsent, DzFile(B_initial, 0, ROOT_ID, ROOT_ID, 2541)}
    /\ dz_backups = EmptyDir
    /\ dz_service = "active"
    /\ clock = 0
    /\ faults = 0
    /\ threads = NoThreads
    /\ cmds = <<>>
    /\ resp = Response("none", <<>>, OK, "", NoBody)

DzygaNext ==
    \/ /\ Cardinality((DOMAIN dz_backups) \cup
                (IF binary.exists THEN {backup_name_of(binary)} ELSE {})) <= MaxBackups
       /\ \E req \in UploadRequests, copy_ok \in BOOLEAN : dzyga_upload(req, copy_ok)
    \/ \E name \in (DOMAIN dz_backups) \cup BadNames : dzyga_restore(name)
    \/ \E name \in (DOMAIN dz_backups) \cup BadNames : dzyga_delete_backup(name)
    \/ dzyga_info
    \/ Tick

DzygaSpec == DzygaInit /\ [][DzygaNext]_vars

----------------------------------------------------------------------------
(* Specification of the readiness gate alone: the gate applied to          *)
(* configuration sets drawn from GateConfigs.                              *)

\* The unresolved placeholder token of the specification's readiness example.
PlaceholderToken == <<"_", "_", "P", "L", "A", "C", "E", "H", "O", "L", "D", "E", "R", "_", "_">>

\* Longest endpoint value drawn, placeholder aside.
MaxValueLen == 3

\* Most lines of a configuration text drawn for the parser.
MaxLines == 3

GateChars == {" ", "\t", "r"}

RECURSIVE Texts(_, _)
Texts(chars, n) ==
    IF n = 0 THEN {<<>>}
    ELSE LET shorter == Texts(chars, n - 1) IN
         shorter \cup {Append(t, c) : t \in shorter, c \in chars}

GateValues ==
    Texts(GateChars, MaxValueLen)
        \cup {PlaceholderToken, <<" ">> \o PlaceholderToken \o <<NL>>}

\* Configuration sets with and without the endpoint key.
GateConfigs ==
    LET others == {EmptyDict, dict_set(EmptyDict, K_OVERLAY_TEXT, <<"x">>),
                   dict_set(EmptyDict, K_USE_UDP_PROXY, V_true)}
    IN  others \cup {dict_set(o, K_RTMP_URL, v) : o \in others, v \in GateValues}

\* The gate as index(), start_service() and restart_service() call it.
check_ready(config) ==
    /\ resp' = Response("is_config_ready", config, OK, "", is_config_ready(config))
    /\ cmds' = <<>>
    /\ UNCHANGED <<config_vars, units, dzyga_vars>>

GateNext == \E config \in GateConfigs : check_ready(config)

GateSpec == Init /\ [][GateNext]_vars

----------------------------------------------------------------------------
(* Specification of the parser alone: get_config applied to configuration  *)
(* and defaults files drawn from ParseFiles and ParseDefaults.             *)

\* Lines of a configuration file: two comment lines, a blank line, a line
\* that is neither a comment nor an assignment, and two assignments.
L_comment == <<"#", "c">>
L_assign2 == <<"J", "=", "w">>

\* Lines of a configuration file: comments, a blank line, a line that is
\* neither, and assignments.
CommentedLines ==
    {L_comment, <<"#", " ", "d">>, <<>>, <<"x">>, <<"K", "=", "v">>, L_assign2}

\* Assignment lines whose raw value carries an inline comment, quotes,
\* blanks or a second '='.
ValueLines ==
    {<<"K", "=", "v", " ", "#", "c">>,
     <<"K", "=", QUOTE, "v", QUOTE>>,
     <<"K", "=", QUOTE>>,
     <<" ", "K", " ", "=", " ", QUOTE, "a", " ", "b", QUOTE, " ">>,
     <<"K", "=", "a", "=", "b">>,
     <<"K", "=", QUOTE, "v", QUOTE, " ", "#", "c">>,
     <<"K", "=", QUOTE, "v">>}

\* The configuration files get_config is applied to.
ParseFiles ==
    {Absent}
        \cup {File(join_nl(ls)) : ls \in Texts(CommentedLines, MaxLines)}
        \cup {File(join_nl(<<l>>)) : l \in ValueLines}
        \cup {File(join_nl(<<L_comment, l, L_assign2>>)) : l \in ValueLines}

\* A defaults file with a default for K, which the lines above assign, and
\* a quoted default for L, which they do not.
ParseDefaultsText ==
    <<"#", "d", NL, "K", "=", "d", NL, "L", "=", QUOTE, "e", " ", "f", QUOTE, NL>>

ParseDefaults == {Absent, File(ParseDefaultsText)}

ParseInit ==
    /\ conf_file \in ParseFiles
    /\ defaults_file \in ParseDefaults
    /\ backup = [i \in 1..3 |-> Absent]
    /\ hist = <<conf_file>>
    /\ units = {}
    /\ binary = DzAbsent
    /\ dz_backups = EmptyDir
    /\ dz_service = "inactive"
    /\ clock = 0
    /\ faults = 0
    /\ threads = NoThreads
    /\ cmds = <<>>
    /\ resp = Response("none", <<>>, OK, "", NoBody)

ParseNext == get_config

ParseSpec == ParseInit /\ [][ParseNext]_vars

----------------------------------------------------------------------------
(* Specification of the writer alone: key/value updates applied, one after *)
(* the other, to configuration files drawn from WriterFiles.               *)

\* Configuration files: one assignment; comments, a blank line and two
\* assignments; one assignment whose line has no line end.
WriterFiles ==
    {File(<<"A", "=", "1", NL>>),
     File(<<"#", "c", NL, "A", "=", "1", NL, NL, "B", "=", "2", NL>>),
     File(<<"A", "=", "1">>)}

\* Update sets posted to /api/config: none; a key with a plain value, with a
\* value that holds a blank, with an empty value, with a quoted value; two
\* keys at once.
WriterUpdates ==
    {<<>>,
     << <<<<"A">>, <<"x">>>> >>,
     << <<<<"B">>, <<"y", " ", "z">>>> >>,
     << <<<<"B">>, <<>>>> >>,
     << <<<<"A">>, <<QUOTE, "q", QUOTE>>>> >>,
     << <<<<"B">>, <<"2">>>>, <<<<"A">>, <<"1">>>> >>}

WriterInit ==
    /\ conf_file \in WriterFiles
    /\ defaults_file = Absent
    /\ backup = [i \in 1..3 |-> Absent]
    /\ hist = <<conf_file>>
    /\ units = {}
    /\ binary = DzAbsent
    /\ dz_backups = EmptyDir
    /\ dz_service = "inactive"
    /\ clock = 0
    /\ faults = 0
    /\ threads = NoThreads
    /\ cmds = <<>>
    /\ resp = Response("none", <<>>, OK, "", NoBody)

WriterNext ==
    \E u \in WriterUpdates, write_ok \in BOOLEAN : update_config(u, write_ok, FALSE)

WriterSpec == WriterInit /\ [][WriterNext]_vars

----------------------------------------------------------------------------
(* Specification of the deployer served by two threads.  An upload or a    *)
(* restore runs as a sequence of external steps: stop, copy, chown, chmod, *)
(* daemon-reload, start.  The steps of the two threads interleave freely.  *)

\* A thread that serves an upload or a restore.  `orig' is the ownership it
\* remembered, `stop_ok' whether its stop ended with status 0, `overlapped'
\* whether another request was being served at any time since it began.
Deploying(op, req, orig, overlapped) ==
    [pc |-> "stop", op |-> op, req |-> req, orig |-> orig,
     stop_ok |-> FALSE, overlapped |-> overlapped]

\* The thread other than p.
other(p) == CHOOSE q \in Threads : q # p

\* The world a step of a thread acts on.
now_world == World(binary, dz_backups, dz_service, <<>>, faults)

\* The threads after thread p began the request described by t.
began(p, t) ==
    [q \in Threads |->
        IF q = p THEN t
        ELSE IF threads[q].pc = "idle" THEN threads[q]
        ELSE [threads[q] EXCEPT !.overlapped = TRUE]]

\* The step of thread p moved the world to w and the thread to pc.
deploy_step(p, w, pc) ==
    /\ binary' = w.binary
    /\ dz_service' = w.service
    /\ faults' = w.faults
    /\ threads' = [threads EXCEPT ![p].pc = pc]
    /\ UNCHANGED <<conf_file, defaults_file, backup, hist,
                   units, dz_backups, clock, cmds, resp>>

\* The request of thread p ended as e: the thread is free again.
deploy_end(p, e, body) ==
    /\ binary' = e.w.binary
    /\ dz_service' = e.w.service
    /\ faults' = e.w.faults
    /\ threads' = [threads EXCEPT ![p] = Idle]
    /\ resp' = dzyga_response(threads[p].op, threads[p].req, e, body)
    /\ UNCHANGED <<conf_file, defaults_file, backup, hist,
                   units, dz_backups, clock, cmds>>

\* The source of the copy: the temp file of an upload, the backup named by a
\* restore.
copy_source(t) ==
    IF t.op = "dzyga_upload"
    THEN [content |-> t.req.payload, mode |-> MKSTEMP_MODE]
    ELSE [content |-> dz_backups[t.req].content, mode |-> dz_backups[t.req].mode]

\* The body of the response to a request that succeeded.
deploy_body(t, w) ==
    IF t.op = "dzyga_upload"
    THEN [new_md5 |-> file_md5(t.req.payload), new_size |-> Len(t.req.payload)]
    ELSE [md5 |-> file_md5(w.binary.content)]

\* dzyga_upload up to its stop: the backup copy and the stat.
begin_upload(p, req) ==
    /\ threads[p].pc = "idle"
    /\ req.has_file /\ req.filename # <<>>
    /\ dz_backups' = IF binary.exists
                     THEN copy2_backup(now_world, backup_name_of(binary)).backups
                     ELSE dz_backups
    /\ threads' = began(p, Deploying("dzyga_upload", req, orig_stat(binary),
                                     threads[other(p)].pc # "idle"))
    /\ UNCHANGED <<conf_file, defaults_file, backup, hist,
                   units, binary, dz_service, clock, faults,
                   cmds, resp>>

\* dzyga_restore up to its stop: the checks of the name and the stat.
begin_restore(p, backup_filename) ==
    /\ threads[p].pc = "idle"
    /\ backup_filename # <<>> /\ ~is_traversal(backup_filename)
    /\ backup_filename \in DOMAIN dz_backups
    /\ threads' = began(p, Deploying("dzyga_restore", backup_filename,
                                     orig_stat(binary),
                                     threads[other(p)].pc # "idle"))
    /\ UNCHANGED <<conf_file, defaults_file, backup, hist,
                   units, binary, dz_backups, dz_service,
                   clock, faults, cmds, resp>>

\* _dzyga_service_cmd('stop')
step_stop(p) ==
    /\ threads[p].pc = "stop"
    /\ \E o \in Allowed(now_world, Outcomes) :
        LET w == dzyga_service_cmd(now_world, "stop", o) IN
        /\ binary' = w.binary
        /\ dz_service' = w.service
        /\ faults' = w.faults
        /\ threads' = [threads EXCEPT
                            ![p].pc = IF o = "timeout" THEN "except" ELSE "cp",
                            ![p].stop_ok = (o = "ok")]
        /\ UNCHANGED <<conf_file, defaults_file, backup, hist,
                       units, dz_backups, clock, cmds, resp>>

\* sudo cp <source> DZYGA_BINARY
step_cp(p) ==
    /\ threads[p].pc = "cp"
    /\ \E o \in Allowed(now_world, CpOutcomes) :
        deploy_step(p, sudo_cp(now_world, copy_source(threads[p]).content,
                               copy_source(threads[p]).mode, clock, o),
                    IF o = "timeout" THEN "except"
                    ELSE IF o # "ok" THEN "start after failed copy"
                    ELSE "chown")

\* sudo chown uid:gid DZYGA_BINARY
step_chown(p) ==
    /\ threads[p].pc = "chown"
    /\ \E o \in Allowed(now_world, Outcomes) :
        deploy_step(p, sudo_chown(now_world, threads[p].orig.uid,
                                  threads[p].orig.gid, o),
                    IF o = "timeout" THEN "except" ELSE "chmod")

\* sudo chmod mode DZYGA_BINARY
step_chmod(p) ==
    /\ threads[p].pc = "chmod"
    /\ \E o \in Allowed(now_world, Outcomes) :
        deploy_step(p, sudo_chmod(now_world, threads[p].orig.mode, o),
                    IF o = "timeout" THEN "except" ELSE "daemon-reload")

\* _dzyga_service_cmd('daemon-reload')
step_reload(p) ==
    /\ threads[p].pc = "daemon-reload"
    /\ \E o \in Allowed(now_world, Outcomes) :
        deploy_step(p, dzyga_service_cmd(now_world, "daemon-reload", o),
                    IF o = "timeout" THEN "except" ELSE "start")

\* _dzyga_service_cmd('start') at the end of the sequence, and the response.
step_start(p) ==
    /\ threads[p].pc = "start"
    /\ \E o \in Allowed(now_world, Outcomes) :
        LET w == dzyga_service_cmd(now_world, "start", o) IN
        IF o = "timeout" THEN deploy_step(p, w, "except")
        ELSE deploy_end(p, Ended(w, "success"), deploy_body(threads[p], w))

\* _dzyga_service_cmd('start') after a copy that exited with a non-zero
\* status, and the response.
step_start_after_failed_copy(p) ==
    /\ threads[p].pc = "start after failed copy"
    /\ \E o \in Allowed(now_world, Outcomes) :
        LET w == dzyga_service_cmd(now_world, "start", o) IN
        IF o = "timeout" THEN deploy_step(p, w, "except")
        ELSE deploy_end(p, Ended(w, "replace failed"), NoBody)

\* The except handler: start, and the response.
step_except(p) ==
    /\ threads[p].pc = "except"
    /\ \E e \in on_exception(now_world) : deploy_end(p, e, NoBody)

RaceInit ==
    /\ conf_file = Absent
    /\ defaults_file = Absent
    /\ backup = [i \in 1..3 |-> Absent]
    /\ hist = <<conf_file>>
    /\ units = {}
    /\ binary = DzFile(B_initial, 0, ROOT_ID, ROOT_ID, 2541)
    /\ dz_backups = EmptyDir
    /\ dz_service = "active"
    /\ clock = 0
    /\ faults = 0
    /\ threads = NoThreads
    /\ cmds = <<>>
    /\ resp = Response("none", <<>>, OK, "", NoBody)

RaceNext ==
    \/ \E p \in Threads, req \in UploadRequests : begin_upload(p, req)
    \/ \E p \in Threads, name \in DOMAIN dz_backups : begin_restore(p, name)
    \/ \E p \in Threads : step_stop(p)
    \/ \E p \in Threads : step_cp(p)
    \/ \E p \in Threads : step_chown(p)
    \/ \E p \in Threads : step_chmod(p)
    \/ \E p \in Threads : step_reload(p)
    \/ \E p \in Threads : step_start(p)
    \/ \E p \in Threads : step_start_after_failed_copy(p)
    \/ \E p \in Threads : step_except(p)

RaceSpec == RaceInit /\ [][RaceNext]_vars

----------------------------------------------------------------------------
(* Specification of the raw save served by two threads.  A raw save runs   *)
(* as a sequence of file steps: each exists() test, the unlink, the two    *)
(* renames, the read of the live file, the write of slot 1 and the write   *)
(* of the live file.  The steps of the two threads interleave freely.      *)

\* Whether thread record t has met another raw save while it was served, in
\* this request or in an earlier one.
Overlapped(t) == "overlapped" \in DOMAIN t /\ t.overlapped

\* A thread that serves a raw save of `content'; backup_content is what it
\* read from the live file.
Saving(content, overlapped) ==
    [pc |-> "exists 3", content |-> content, backup_content |-> <<>>,
     overlapped |-> overlapped]

\* A thread that has served its raw save.
Served(t) ==
    IF t.overlapped THEN [pc |-> "idle", overlapped |-> TRUE] ELSE Idle

\* Contents posted to /api/config/raw by the two clients.
RaceContents == {R_a, R_b}

\* The raw saves begun so far that wrote or may still write the live file.
SavesBegun ==
    Len(hist) - 1 + Cardinality({p \in Threads : threads[p].pc # "idle"})

\* save_raw_config up to the rotation: the content is checked.
begin_save(p, content) ==
    /\ threads[p].pc = "idle"
    /\ SavesBegun < MaxRaceSaves
    /\ strip(content) # <<>>
    /\ threads' =
        [q \in Threads |->
            IF q = p
            THEN Saving(content, Overlapped(threads[p])
                                    \/ threads[other(p)].pc # "idle")
            ELSE IF threads[q].pc = "idle" THEN threads[q]
            ELSE [threads[q] EXCEPT !.overlapped = TRUE]]
    /\ UNCHANGED <<conf_file, defaults_file, backup, hist, units, binary,
                   dz_backups, dz_service, clock, faults, cmds, resp>>

\* The step of thread p left the files as they are and moved the thread to pc.
save_goto(p, pc) ==
    /\ threads' = [threads EXCEPT ![p].pc = pc]
    /\ UNCHANGED <<conf_file, defaults_file, backup, hist, units, binary,
                   dz_backups, dz_service, clock, faults, cmds, resp>>

\* The step of thread p raised: `except Exception' answers 500.
save_raised(p) ==
    /\ threads' = [threads EXCEPT ![p] = Served(threads[p])]
    /\ resp' = Response("save_raw_config", threads[p].content, ServerError,
                        "exception", NoBody)
    /\ UNCHANGED <<conf_file, defaults_file, backup, hist, units, binary,
                   dz_backups, dz_service, clock, faults, cmds>>

\* The step of thread p changed the slots to b and moved the thread to pc.
save_slots(p, b, pc) ==
    /\ backup' = b
    /\ threads' = [threads EXCEPT ![p].pc = pc]
    /\ UNCHANGED <<conf_file, defaults_file, hist, units, binary,
                   dz_backups, dz_service, clock, faults, cmds, resp>>

\* backup_3.exists(), backup_2.exists(), backup_1.exists()
step_exists(p) ==
    \/ /\ threads[p].pc = "exists 3"
       /\ save_goto(p, IF backup[3].exists THEN "unlink 3" ELSE "exists 2")
    \/ /\ threads[p].pc = "exists 2"
       /\ save_goto(p, IF backup[2].exists THEN "rename 2" ELSE "exists 1")
    \/ /\ threads[p].pc = "exists 1"
       /\ save_goto(p, IF backup[1].exists THEN "rename 1" ELSE "exists live")
    \/ /\ threads[p].pc = "exists live"
       /\ save_goto(p, IF conf_file.exists THEN "read live" ELSE "write live")

\* backup_3.unlink(): FileNotFoundError when the file is gone.
step_unlink(p) ==
    /\ threads[p].pc = "unlink 3"
    /\ IF backup[3].exists
       THEN save_slots(p, unlink_if_exists(backup, 3), "exists 2")
       ELSE save_raised(p)

\* backup_2.rename(backup_3), backup_1.rename(backup_2): FileNotFoundError
\* when the source is gone; a destination that exists is replaced.
step_rename(p) ==
    \/ /\ threads[p].pc = "rename 2"
       /\ IF backup[2].exists
          THEN save_slots(p, rename_if_exists(backup, 2, 3), "exists 1")
          ELSE save_raised(p)
    \/ /\ threads[p].pc = "rename 1"
       /\ IF backup[1].exists
          THEN save_slots(p, rename_if_exists(backup, 1, 2), "exists live")
          ELSE save_raised(p)

\* backup_content = f.read()
step_read_live(p) ==
    /\ threads[p].pc = "read live"
    /\ IF conf_file.exists
       THEN /\ threads' = [threads EXCEPT ![p].pc = "write 1",
                                          ![p].backup_content = conf_file.content]
            /\ UNCHANGED <<conf_file, defaults_file, backup, hist, units,
                           binary, dz_backups, dz_service, clock, faults, cmds,
                           resp>>
       ELSE save_raised(p)

\* open(backup_1, 'w').write(backup_content)
step_write_slot(p) ==
    /\ threads[p].pc = "write 1"
    /\ save_slots(p, snapshot_current(backup, File(threads[p].backup_content)),
                  "write live")

\* open(CONFIG_FILE, 'w').write(content), and the response.
step_write_live(p) ==
    /\ threads[p].pc = "write live"
    /\ conf_file' = File(threads[p].content)
    /\ hist' = LastN(Append(hist, File(threads[p].content)), HistLen)
    /\ threads' = [threads EXCEPT ![p] = Served(threads[p])]
    /\ resp' = Response("save_raw_config", threads[p].content, OK, "", NoBody)
    /\ UNCHANGED <<defaults_file, backup, units, binary, dz_backups,
                   dz_service, clock, faults, cmds>>

SaveRaceInit ==
    /\ conf_file = File(R_comment)
    /\ defaults_file = Absent
    /\ backup = [i \in 1..3 |-> Absent]
    /\ hist = <<conf_file>>
    /\ units = {}
    /\ binary = DzAbsent
    /\ dz_backups = EmptyDir
    /\ dz_service = "inactive"
    /\ clock = 0
    /\ faults = 0
    /\ threads = NoThreads
    /\ cmds = <<>>
    /\ resp = Response("none", <<>>, OK, "", NoBody)

SaveRaceNext ==
    \/ \E p \in Threads, content \in RaceContents : begin_save(p, content)
    \/ \E p \in Threads : step_exists(p)
    \/ \E p \in Threads : step_unlink(p)
    \/ \E p \in Threads : step_rename(p)
    \/ \E p \in Threads : step_read_live(p)
    \/ \E p \in Threads : step_write_slot(p)
    \/ \E p \in Threads : step_write_live(p)

SaveRaceSpec == SaveRaceInit /\ [][SaveRaceNext]_vars

----------------------------------------------------------------------------
(* Properties of the configuration store.                                  *)

\* The number of raw saves of the current streak that `hist' remembers.
Saved == Len(hist) - 1

\* C1: backup rotation is FIFO with depth 3.  After n raw saves in a row the
\* live file holds the last content saved, slot k (k = 1, 2, 3) holds the
\* content that was live k saves ago whenever n >= k, and a content that was
\* live more than three saves ago and differs from the three newer ones is in
\* no slot.
C1_FifoRotation ==
    /\ conf_file = hist[Len(hist)]
    /\ \A k \in 1..3 : k <= Saved => backup[k] = hist[Len(hist) - k]
    /\ \A j \in 1..(Len(hist) - 4) :
        (\A k \in 1..3 : hist[j] # hist[Len(hist) - k])
            => \A k \in 1..3 : backup[k] # hist[j]

\* Four raw saves in a row over contents c0..c3 that are pairwise distinct:
\* the slots hold c3, c2, c1 and c0 is lost.
C1_Witness ==
    /\ Saved = 4
    /\ resp.op = "save_raw_config" /\ resp.status = OK
    /\ \A i \in 1..4 : hist[i].exists
    /\ \A i, j \in 1..4 : i # j => hist[i] # hist[j]
    /\ backup[1] = hist[4] /\ backup[2] = hist[3] /\ backup[3] = hist[2]
    /\ \A k \in 1..3 : backup[k] # hist[1]

\* C2: a successful restore(slot) makes the live content equal to the slot's
\* content and leaves the three slots as they were; the content that was live
\* before the restore is in a slot afterwards only if it already was.
C2_RestoreFrame ==
    [][(resp'.op = "restore_from_backup" /\ resp'.status = OK)
        => /\ conf_file' = File(backup[resp'.req].content)
           /\ backup' = backup
           /\ \A k \in 1..3 :
                (conf_file.exists /\ backup'[k] = conf_file) => backup[k] = conf_file
      ]_vars

\* A restore from slot 2 has replaced a live content that no slot holds.
C2_Witness ==
    /\ resp.op = "restore_from_backup" /\ resp.status = OK /\ resp.req = 2
    /\ conf_file = backup[2]
    /\ backup[1].exists /\ backup[1] # backup[2]
    /\ hist = <<conf_file>>

\* Whether the last request was a get or a restore of a backup slot.
SlotRequest == resp.op \in {"get_backup_content", "restore_from_backup"}

\* C3 as stated: get(slot) and restore(slot) fail with NotFound when the slot
\* index is outside [1,3] and when the slot is empty.
C3_Original ==
    (SlotRequest /\ (resp.req \notin 1..3 \/ ~backup[resp.req].exists))
        => resp.status = NotFound

\* C3 as amended: get(slot) and restore(slot) fail with InvalidInput when the
\* slot index is outside [1,3] and with NotFound when the index is in range
\* and the slot is empty; such a failure changes neither the live file nor a
\* slot.
C3_SlotErrors ==
    /\ [](SlotRequest =>
            /\ resp.req \notin 1..3 => resp.status = InvalidInput
            /\ (resp.req \in 1..3 /\ ~backup[resp.req].exists)
                    => resp.status = NotFound)
    /\ [][(resp'.op \in {"get_backup_content", "restore_from_backup"}
            /\ resp'.status # OK)
          => (conf_file' = conf_file /\ backup' = backup)]_vars

\* Both failures have happened with backups present: an index out of range,
\* and an empty slot 2 next to an occupied slot 1.
C3_Witness ==
    /\ SlotRequest
    /\ backup[1].exists /\ ~backup[2].exists /\ conf_file.exists
    /\ \/ resp.req = 4 /\ resp.status = InvalidInput
       \/ resp.req = 2 /\ resp.status = NotFound

\* C4: a raw save of empty or whitespace-only content fails with InvalidInput
\* and leaves the live file and the three slots as they were.
C4_EmptyRawSave ==
    [][(resp'.op = "save_raw_config" /\ strip(resp'.req) = <<>>)
        => /\ resp'.status = InvalidInput
           /\ conf_file' = conf_file
           /\ backup' = backup]_vars

\* A whitespace-only save was refused while a rotation would have moved slots.
C4_Witness ==
    /\ resp.op = "save_raw_config" /\ resp.req = R_blank
    /\ resp.status = InvalidInput
    /\ conf_file.exists /\ backup[1].exists /\ backup[1] # conf_file

----------------------------------------------------------------------------
(* Properties of the readiness gate.                                       *)

\* C5 as stated: isReady(config) is true exactly when the endpoint key is
\* present and its value, trimmed, is neither empty nor the placeholder token.
C5_Original ==
    resp.op = "is_config_ready" =>
        (resp.body <=>
            /\ K_RTMP_URL \in DOMAIN resp.req
            /\ strip(resp.req[K_RTMP_URL]) # <<>>
            /\ strip(resp.req[K_RTMP_URL]) # PlaceholderToken)

\* What the gate computes: true exactly when the endpoint key is present and
\* its value, trimmed, is not empty.
C5_GateAsCoded ==
    resp.op = "is_config_ready" =>
        (resp.body <=>
            /\ K_RTMP_URL \in DOMAIN resp.req
            /\ \E i \in 1..Len(resp.req[K_RTMP_URL]) :
                    ~IsSpace(resp.req[K_RTMP_URL][i]))

\* The configuration the handlers parse afresh is not ready.
GateClosed == ~is_config_ready(parse_config(conf_file, defaults_file).config)

\* C6: when the readiness gate is false on the freshly parsed configuration,
\* a stream start or restart fails with the not-ready error and issues no
\* command to any unit.
C6_StartGated ==
    (resp.op \in {"start_service", "restart_service"} /\ GateClosed)
        => /\ resp.status = InvalidInput
           /\ resp.error = "RTMP URL is not filled in"
           /\ cmds = <<>>

\* A start was refused on an existing configuration file whose endpoint is
\* blank, with the stream stopped.
C6_Witness ==
    /\ resp.op = "start_service" /\ resp.status = InvalidInput
    /\ conf_file.exists /\ GateClosed
    /\ STREAM \notin units

\* C7 as stated, for the configuration mutations: a key/value update or an
\* installer save that wrote the file had an input that passed the readiness
\* gate (on the input, or on the configuration it produces), and a raw
\* replacement that wrote the file had a content that passed its check.
C7_Original ==
    resp.status = OK =>
        /\ resp.op \in {"update_config", "installer_save"}
            => (is_config_ready(as_dict(resp.req)) \/ ~GateClosed)
        /\ resp.op = "save_raw_config" => strip(resp.req) # <<>>

----------------------------------------------------------------------------
(* Properties of the dzyga binary deployer.                                *)

\* Whether the last request was an upload that reported success.
UploadSucceeded == resp.op = "dzyga_upload" /\ resp.status = OK

\* C8: after an upload that reports success the live binary's content is the
\* payload: the checksum returned is the payload's, and the info() that
\* follows reports that checksum for the live binary.
C8_UploadChecksum ==
    /\ [](UploadSucceeded =>
            /\ resp.body.new_md5 = file_md5(resp.req.payload)
            /\ binary.exists /\ binary.content = resp.req.payload
            /\ info_of(binary, dz_backups, dz_service).md5 = resp.body.new_md5)
    /\ [][(UploadSucceeded /\ resp'.op = "dzyga_info")
            => resp'.body.md5 = resp.body.new_md5]_vars

\* An upload has replaced a binary of another content, and info() has
\* reported the new checksum.
C8_Witness ==
    /\ resp.op = "dzyga_info"
    /\ resp.body.md5 = file_md5(P_new)
    /\ binary.content = P_new
    /\ \E n \in DOMAIN dz_backups : dz_backups[n].content = B_initial
    /\ file_md5(B_initial) # file_md5(P_new)

\* A step of an upload that reports success (the clock's tick leaves `resp').
UploadSucceeds == resp'.op = "dzyga_upload" /\ resp'.status = OK /\ clock' = clock

\* C9 as stated: every upload that reports success has added to the backup
\* directory an entry, named from the replaced binary's modification time and
\* checksum, that was not there before and whose content is the replaced
\* binary's.
C9_Original ==
    [][UploadSucceeds
        => \E n \in (DOMAIN dz_backups') \ (DOMAIN dz_backups) :
                /\ n = backup_name_of(binary)
                /\ dz_backups'[n].content = binary.content]_vars

\* C9 as amended: an upload that reports success and replaced an existing
\* binary leaves in the backup directory an entry, named from the replaced
\* binary's modification time and checksum, whose content is the replaced
\* binary's, and it is the only entry that can be new (it is not new when an
\* entry of that name was there already); an upload that found no binary adds
\* no entry and names none.
C9_UploadBackup ==
    [][UploadSucceeds
        => IF binary.exists
           THEN LET n == backup_name_of(binary) IN
                /\ n \in DOMAIN dz_backups'
                /\ dz_backups'[n].content = binary.content
                /\ resp'.body.backup = n
                /\ DOMAIN dz_backups' = (DOMAIN dz_backups) \cup {n}
                /\ \A m \in DOMAIN dz_backups : m # n => dz_backups'[m] = dz_backups[m]
           ELSE /\ dz_backups' = dz_backups
                /\ resp'.body.backup = None]_vars

\* An upload has succeeded over an existing binary and the entry it names
\* holds the replaced content.
C9_Witness ==
    /\ UploadSucceeded
    /\ resp.body.backup # None
    /\ resp.body.backup \in DOMAIN dz_backups
    /\ dz_backups[resp.body.backup].content = B_initial
    /\ binary.content = P_new

\* C10 as stated: whenever an upload or a restore reports success the
\* service is active afterwards, and info() reports it so.
C10_Original ==
    (resp.op \in {"dzyga_upload", "dzyga_restore"} /\ resp.status = OK)
        => /\ dz_service = "active"
           /\ info_of(binary, dz_backups, dz_service).service_status = "active"

\* Whether the last request was an upload or a restore of the binary.
DzygaReplace == resp.op \in {"dzyga_upload", "dzyga_restore"}

\* C11: in every upload or restore that issued a stop command, a start
\* command was issued later in the same request: after the replace on the
\* success path, after a failed copy, and by the exception handler after a
\* time-out of any step.
C11_StartAfterStop ==
    DzygaReplace =>
        \A i \in DOMAIN cmds :
            cmds[i].cmd = "stop"
                => \E j \in (i + 1)..Len(cmds) : cmds[j].cmd = "start"

\* The chmod after a good copy timed out, and the exception handler issued
\* the start as the last command of the request.
C11_Witness ==
    /\ DzygaReplace /\ resp.status = ServerError
    /\ Len(cmds) = 5
    /\ cmds[1] = Ran("stop", "ok")
    /\ cmds[4] = Ran("chmod", "timeout")
    /\ cmds[5].cmd = "start"

\* Whether the copy of the request whose commands are c ended other than with
\* exit status 0.
CopyFailed(c) == \E i \in DOMAIN c : c[i].cmd = "cp" /\ c[i].outcome # "ok"

\* C12 as stated: when the copy step of an upload fails while the service was
\* active, the upload reports failure, the live binary is as before, and the
\* service is active when the request returns.
C12_Original ==
    [][(resp'.op = "dzyga_upload" /\ clock' = clock /\ CopyFailed(cmds')
            /\ dz_service = "active")
        => /\ resp'.status # OK
           /\ binary' = binary
           /\ dz_service' = "active"]_vars

\* C13 as stated: after an upload or a restore that reports success the
\* owner, the group and the full permission bits of the live binary are those
\* of the binary it replaced, or rpidrone:rpidrone and 0o751 when there was
\* none.
C13_Original ==
    [][(resp'.op \in {"dzyga_upload", "dzyga_restore"} /\ clock' = clock
            /\ resp'.status = OK)
        => IF binary.exists
           THEN /\ binary'.uid = binary.uid /\ binary'.gid = binary.gid
                /\ binary'.mode = binary.mode
           ELSE /\ binary'.uid = RPIDRONE_ID /\ binary'.gid = RPIDRONE_ID
                /\ binary'.mode = DEFAULT_MODE]_vars

\* Whether a posted name contains '/' or '..'.
HasSlashOrDotDot(name) ==
    \/ \E i \in 1..Len(name) : name[i] = "/"
    \/ \E i \in 1..(Len(name) - 1) : name[i] = "." /\ name[i + 1] = "."

\* C14: a restore or a delete of a backup whose name contains '/' or '..'
\* fails with InvalidInput, issues no command, and leaves the backups, the
\* live binary and the service as they were.
C14_TraversalRejected ==
    [][(resp'.op \in {"dzyga_restore", "dzyga_delete_backup"} /\ clock' = clock
            /\ HasSlashOrDotDot(resp'.req))
        => /\ resp'.status = InvalidInput
           /\ cmds' = <<>>
           /\ binary' = binary
           /\ dz_backups' = dz_backups
           /\ dz_service' = dz_service]_vars

\* A restore of the name '..' was refused while a binary and a backup exist.
C14_Witness ==
    /\ resp.op = "dzyga_restore" /\ resp.req = <<".", ".">>
    /\ resp.status = InvalidInput
    /\ binary.exists /\ DOMAIN dz_backups # {}

\* C15: a backup entry disappears or changes content only by a successful
\* delete of its name.  A delete that succeeds removes that entry alone; a
\* delete of a well-formed name that is absent fails with NotFound and
\* changes nothing; no delete touches the live binary or the service.
C15_AppendOnly ==
    [][/\ \A n \in DOMAIN dz_backups :
            (\/ n \notin DOMAIN dz_backups'
             \/ dz_backups'[n].content # dz_backups[n].content)
                => /\ resp'.op = "dzyga_delete_backup"
                   /\ resp'.status = OK
                   /\ resp'.req = n
       /\ (resp'.op = "dzyga_delete_backup" /\ clock' = clock)
            => /\ binary' = binary
               /\ dz_service' = dz_service
               /\ resp'.status = OK
                    => /\ resp'.req \in DOMAIN dz_backups
                       /\ DOMAIN dz_backups' = (DOMAIN dz_backups) \ {resp'.req}
                       /\ \A m \in DOMAIN dz_backups' :
                            dz_backups'[m] = dz_backups[m]
               /\ (/\ resp'.req # <<>>
                   /\ ~HasSlashOrDotDot(resp'.req)
                   /\ resp'.req \notin DOMAIN dz_backups)
                    => /\ resp'.status = NotFound
                       /\ dz_backups' = dz_backups
      ]_vars

\* An upload has added a second backup next to an older one, which is still
\* there with the content of the first binary.
C15_Witness ==
    /\ resp.op = "dzyga_upload" /\ resp.status = OK
    /\ Cardinality(DOMAIN dz_backups) = 2
    /\ resp.body.backup \in DOMAIN dz_backups
    /\ \E n \in DOMAIN dz_backups :
            n # resp.body.backup /\ dz_backups[n].content = B_initial

\* C16 as stated: within one upload or restore the copy starts only after a
\* stop command has succeeded, and no start is issued between that stop and
\* the copy.
C16_Original ==
    DzygaReplace =>
        \A i \in DOMAIN cmds :
            cmds[i].cmd = "cp"
                => \E j \in 1..(i - 1) :
                        /\ cmds[j] = Ran("stop", "ok")
                        /\ \A k \in (j + 1)..(i - 1) : cmds[k].cmd # "start"

\* C17 as stated: an upload or a restore in which the stop, chown, chmod,
\* daemon-reload or final start command returned non-zero does not report
\* success.
C17_Original ==
    (DzygaReplace /\ resp.status = OK) =>
        \A i \in DOMAIN cmds :
            cmds[i].cmd \in {"stop", "chown", "chmod", "daemon-reload", "start"}
                => cmds[i].outcome # "fail"

----------------------------------------------------------------------------
(* Properties of the parser.                                               *)

\* The comments C18 states: a comment line joins the pending buffer, an
\* assignment takes the buffer as its key's comment and clears it, and a
\* blank line or any other line clears the buffer.  st is the pair
\* [comments, pending].
RECURSIVE stated_comments_loop(_, _)
stated_comments_loop(lines, st) ==
    IF lines = <<>> THEN st.comments
    ELSE
        LET line == strip(Head(lines)) IN
        IF startswith(line, "#")
        THEN stated_comments_loop(Tail(lines),
                [st EXCEPT !.pending = Append(@, strip(Tail(line)))])
        ELSE IF Contains(line, "=")
        THEN stated_comments_loop(Tail(lines),
                [comments |->
                    IF st.pending # <<>>
                    THEN dict_set(st.comments, strip(split_eq(line)[1]),
                                  join_nl(st.pending))
                    ELSE st.comments,
                 pending |-> <<>>])
        ELSE stated_comments_loop(Tail(lines), [st EXCEPT !.pending = <<>>])

stated_comments(content) ==
    stated_comments_loop(split(content, NL),
                         [comments |-> EmptyDict, pending |-> <<>>])

\* C18 as stated: the comment of a key is the run of comment lines right
\* before its assignment; a blank line or another line that is neither a
\* comment nor an assignment clears the pending comments and is no part of a
\* comment.
C18_Original ==
    (resp.op = "get_config" /\ conf_file.exists)
        => resp.body.comments = stated_comments(conf_file.content)

\* The value C19 states for the raw text after the first '=': cut at the
\* first '#', trimmed, and without one pair of enclosing quotes when it is
\* wrapped in a pair.
stated_value(raw) ==
    LET i == Find(raw, "#")
        t == strip(IF i = 0 THEN raw ELSE SubSeq(raw, 1, i - 1))
    IN  IF Len(t) >= 2 /\ t[1] = QUOTE /\ t[Len(t)] = QUOTE
        THEN SubSeq(t, 2, Len(t) - 1) ELSE t

\* The pairs C19 states for the assignment lines of a text.
RECURSIVE stated_pairs_loop(_, _)
stated_pairs_loop(lines, config) ==
    IF lines = <<>> THEN config
    ELSE
        LET line == strip(Head(lines)) IN
        IF ~startswith(line, "#") /\ Contains(line, "=")
        THEN stated_pairs_loop(Tail(lines),
                dict_set(config, strip(split_eq(line)[1]),
                         stated_value(split_eq(line)[2])))
        ELSE stated_pairs_loop(Tail(lines), config)

stated_pairs(content) == stated_pairs_loop(split(content, NL), EmptyDict)

\* C19 as stated: the parsed value of every assigned key is the text after
\* the first '=', cut at the first inline comment marker, trimmed, and
\* without one pair of enclosing quotes when and only when it is wrapped in
\* a pair.
C19_Original ==
    (resp.op = "get_config" /\ conf_file.exists)
        => \A k \in DOMAIN stated_pairs(conf_file.content) :
                /\ k \in DOMAIN resp.body.config
                /\ resp.body.config[k] = stated_pairs(conf_file.content)[k]

\* The pairs the parser reads from the persisted file alone.
PersistedPairs ==
    IF conf_file.exists THEN parse_config(conf_file, Absent).config ELSE EmptyDict

\* C20 as stated: the parsed configuration is the defaults overlaid by the
\* persisted pairs: a persisted key keeps its value, a default key that is
\* not persisted has its default, also when the persisted file is absent
\* (the result is then the defaults).
C20_Original ==
    resp.op = "get_config"
        => resp.body.config
            = [k \in (DOMAIN PersistedPairs) \cup (DOMAIN parse_defaults(defaults_file))
                |-> IF k \in DOMAIN PersistedPairs THEN PersistedPairs[k]
                    ELSE parse_defaults(defaults_file)[k]]

----------------------------------------------------------------------------
(* Properties of the writer.                                               *)

\* A step of a key/value update that reports success on an existing file.
UpdateSaved ==
    /\ resp'.op = "update_config" /\ resp'.status = OK
    /\ conf_file.exists

\* Whether a line of a file is an assignment, and the key it assigns.
IsAssignment(line) == Contains(strip(line), "=") /\ ~startswith(strip(line), "#")
KeyOf(line) == strip(split_eq(strip(line))[1])

\* The keys of an update set that no line of `lines' assigns, in the order
\* of the update set.
RECURSIVE UnassignedKeys(_, _)
UnassignedKeys(config_data, lines) ==
    IF config_data = <<>> THEN <<>>
    ELSE (IF \E i \in 1..Len(lines) :
                IsAssignment(lines[i]) /\ KeyOf(lines[i]) = Head(config_data)[1]
          THEN <<>> ELSE <<Head(config_data)[1]>>)
         \o UnassignedKeys(Tail(config_data), lines)

\* C21 as stated: after save_config(U) on an existing file every line that
\* is a comment, blank, or an assignment of a key not in U is the same line
\* at the same position; every assignment of a key of U is replaced in place
\* by one line that assigns that key; one line is appended, in U's order,
\* for every key of U that no line assigned; with U empty the file is the
\* same, byte for byte.
C21_Original ==
    [][UpdateSaved =>
        LET U == resp'.req
            old == readlines(conf_file.content)
            new == readlines(conf_file'.content)
            added == UnassignedKeys(U, old)
        IN  /\ Len(new) = Len(old) + Len(added)
            /\ \A i \in 1..Len(old) :
                IF IsAssignment(old[i]) /\ has_key(U, KeyOf(old[i]))
                THEN IsAssignment(new[i]) /\ KeyOf(new[i]) = KeyOf(old[i])
                ELSE new[i] = old[i]
            /\ \A j \in 1..Len(added) :
                /\ IsAssignment(new[Len(old) + j])
                /\ KeyOf(new[Len(old) + j]) = added[j]
            /\ U = <<>> => conf_file' = conf_file
      ]_vars

\* C22 as stated: writing U and then parsing yields U merged over the values
\* parsed before: every key of U has its value of U, every other key its
\* value of before, and there is no other key.
C22_Original ==
    [][UpdateSaved =>
        LET U == as_dict(resp'.req)
            before == parse_config(conf_file, defaults_file).config
        IN  parse_config(conf_file', defaults_file).config
                = [k \in (DOMAIN U) \cup (DOMAIN before) |->
                    IF k \in DOMAIN U THEN U[k] ELSE before[k]]
      ]_vars

\* C23 as stated: a save of U that follows a successful save of the same U
\* leaves the file as the first save left it.
C23_Original ==
    [][(/\ resp.op = "update_config" /\ resp.status = OK
        /\ resp'.op = "update_config" /\ resp'.status = OK
        /\ resp'.req = resp.req)
        => conf_file' = conf_file]_vars

----------------------------------------------------------------------------
(* Further properties of the backup stores and of the deployer.            *)

C27_Original ==
    DzygaReplace =>
        \A i \in DOMAIN cmds :
            cmds[i].cmd = "start"
                => \E j \in 1..(i - 1) : cmds[j].cmd = "stop"

\* C28: a restore leaves the backup directory as it was, whatever its
\* outcome; when it reports success the checksum it returns is the checksum
\* of the live binary and of the backup named.
C28_RestoreFrame ==
    [][(resp'.op = "dzyga_restore" /\ clock' = clock)
        => /\ dz_backups' = dz_backups
           /\ resp'.status = OK
                => /\ resp'.req \in DOMAIN dz_backups
                   /\ binary'.exists
                   /\ resp'.body.md5 = file_md5(binary'.content)
                   /\ resp'.body.md5 = file_md5(dz_backups[resp'.req].content)
      ]_vars

\* A restore has put the first binary back over an uploaded one, of which
\* the backup directory holds no copy.
C28_Witness ==
    /\ resp.op = "dzyga_restore" /\ resp.status = OK
    /\ binary.content = B_initial /\ binary.mtime > 0
    /\ resp.req \in DOMAIN dz_backups
    /\ \A n \in DOMAIN dz_backups : dz_backups[n].content # P_new

----------------------------------------------------------------------------
(* Properties of the deployer served by two threads.                       *)

\* Thread q stopped the service and has not completed its copy.
Overwriting(q) == threads[q].pc = "cp" /\ threads[q].stop_ok

\* C24: binary replace is not protected against concurrent requests.  While
\* a request is between its successful stop and the end of its copy the
\* service is inactive, provided no other request was served since the
\* request began; with two requests interleaved the service can be active
\* in that window, started by the other request (C24_Witness).
C24_SerializedReplace ==
    \A q \in Threads :
        (Overwriting(q) /\ ~threads[q].overlapped) => dz_service = "inactive"

\* The other request has issued its start and reported success while thread
\* q is between its stop and the end of its copy: the binary is about to be
\* overwritten under the running service.
C24_Witness ==
    \E q \in Threads :
        /\ Overwriting(q) /\ threads[q].overlapped
        /\ threads[other(q)].pc = "idle"
        /\ resp.op \in {"dzyga_upload", "dzyga_restore"} /\ resp.status = OK
        /\ dz_service = "active"

----------------------------------------------------------------------------
(* Properties of the raw save served by two threads.                       *)

\* No thread serves a request.
Quiescent == \A p \in Threads : threads[p].pc = "idle"

\* No raw save has met another one.
Serialized == \A p \in Threads : ~Overlapped(threads[p])

\* The FIFO guarantee of the rotation: the live file holds the content saved
\* last and slot k the content that was live k saves ago.
SlotsAreFifo ==
    /\ conf_file = hist[Len(hist)]
    /\ \A k \in 1..3 : k <= Len(hist) - 1 => backup[k] = hist[Len(hist) - k]

\* A content that was live fewer than four saves ago is neither live nor in
\* a slot.
ContentLost ==
    \E j \in 1..Len(hist) :
        /\ Len(hist) - j < 4
        /\ conf_file # hist[j]
        /\ \A k \in 1..3 : backup[k] # hist[j]

\* C25: the rotation is correct only under serialized access.  As long as no
\* raw save has met another one no step of a raw save fails, and between
\* requests the slots are FIFO and no recent content is lost; with two raw
\* saves interleaved a recent content can be lost (C25_Witness).
C25_SerializedRotation ==
    Serialized
        => /\ ~(resp.op = "save_raw_config" /\ resp.status = ServerError)
           /\ Quiescent => (SlotsAreFifo /\ ~ContentLost)

\* Two raw saves were interleaved and both were answered: the FIFO guarantee
\* is broken and a content that was live fewer than four saves ago is gone.
C25_Witness ==
    /\ Quiescent /\ ~Serialized
    /\ resp.op = "save_raw_config" /\ resp.status = OK
    /\ ~SlotsAreFifo
    /\ ContentLost

====
